---- MODULE Spec2Model ----
(***************************************************************************)
(* The stateful signer of MBPQS: the private key's root-tree counter, its  *)
(* list of channels, every channel's counters, and the calls GetSeqNo,     *)
(* SignChannelRoot, createChannel, SignChannelMsg and GrowChannel          *)
(* (src/mbpqs.go, second package clause, lines 73-453; src/channel.go).    *)
(*                                                                         *)
(* A call is a sequence of steps of the goroutine that makes it; pc is the *)
(* goroutine's position and loc its local variables.  A step is one read   *)
(* or write of shared state, or one critical section of a mutex.  Hashes   *)
(* and WOTS+ signatures are not computed here: a signature is recorded by  *)
(* the counters it carries and by the OTS address (layer, tree, otsIndex)  *)
(* of the one-time key that made it.  The buffer of a chain tree is        *)
(* recorded by its length, and a slice of it by its bounds: a slice that   *)
(* leaves the buffer is a run-time panic, which no function recovers.      *)
(***************************************************************************)
EXTENDS Integers, Sequences, FiniteSets, TLC

VARIABLES
    params,     \* ctx.params: [n, rootH, chanH, ge]
    seqNo,      \* sk.seqNo
    skMux,      \* sk.mux: 0 when free, else the goroutine holding it
    Channels,   \* sk.Channels: sequence of channel objects (indices of heap)
    heap,       \* the *Channel objects ever allocated, in allocation order
    pc,         \* position of every goroutine
    loc,        \* local variables of every goroutine
    last,       \* the result of the call that ended last
    rootLog,    \* the sequence numbers GetSeqNo handed out, in order
    msgSigs,    \* the MsgSignatures issued: [chIdx, seqNo, chainSeqNo, layer]
    dupMsg,     \* the <<chIdx, seqNo>> carried by more than one MsgSignature
    otsUsed,    \* OTS addresses that produced a WOTS+ signature
    otsReused,  \* OTS addresses that produced more than one
    ver,        \* the verifier that is handed every signature as it is issued
    gen,        \* a run of genChainTree: its goroutines and the tree ct
    lay,        \* a chain tree of newChainTree and the slices taken of it
    par,        \* the workers of genChainTreeInto and their uint32 index
    alloc       \* a channel of ChannelSeqNo / GetChannelSeqNo and its results

vars == <<params, seqNo, skMux, Channels, heap, pc, loc, last, rootLog,
          msgSigs, dupMsg, otsUsed, otsReused, ver, gen, lay, par, alloc>>

shared == <<seqNo, skMux, Channels, heap>>
history == <<rootLog, msgSigs, dupMsg, otsUsed, otsReused>>

(***************************************************************************)
(* Bounds of the model.                                                    *)
(***************************************************************************)
\* createChannel is called while fewer than 2^rootH + MaxExtraChannels
\* channel objects exist.
MaxExtraChannels == 1
\* GrowChannel is called on a channel with fewer than MaxLayers layers.
MaxLayers == 2
\* SignChannelMsg is called on a channel whose chainSeqNo is below the height
\* of its chain tree plus MaxOverrun.
MaxOverrun == 0
\* SignChannelMsg and GrowChannel are called with chIdx in 0 .. MaxChIdx.
MaxChIdx == 1
\* genChainTreeInto runs with ctx.threads, or runtime.NumCPU(), up to
\* MaxThreads.
MaxThreads == 2

\* The goroutines that call into one private key.
AllProcs == {1, 2, 3, 4}
\* The callers of the specifications with one, two and three callers.
OneCaller == {1}
TwoCallers == {1, 2}
ThreeCallers == {1, 2, 3}

\* params.n, the length of a node in bytes (32 for SHA-256, 64 for SHA-512).
NodeLengths == {32, 64}

\* InitParam(n, rtH, chanH, ge, w): w does not enter the model.
InitParam(n, rtH, chanH, ge) ==
    [n |-> n, rootH |-> rtH, chanH |-> chanH, ge |-> ge]

\* Parameter sets: the chain trees of the specification's scenarios
\* (chanH = 4, ge = 2) and its root tree (rootH = 2), with both node lengths.
SeqParams == { InitParam(n, 1, 4, 2) : n \in NodeLengths }
               \cup { InitParam(n, 2, 1, 1) : n \in NodeLengths }
ConcParams == { InitParam(n, 1, 1, 1) : n \in NodeLengths }
VerParams == { InitParam(n, 2, 2, 1) : n \in NodeLengths }

\* rd and val hold the field of the channel a check has read first and its
\* value; wrote records that the call has written to the signer state.
NoLoc == [op |-> "none", chIdx |-> 0, lastOne |-> FALSE, ch |-> 0,
          tmp |-> << >>, seqNo |-> 0, chainSeqNo |-> 0,
          rd |-> "none", val |-> 0, wrote |-> FALSE]

NoEvent == [op |-> "none", err |-> "nil"]

(***************************************************************************)
(* Pure functions.                                                         *)
(***************************************************************************)
\* 1 << rootH
RootKeys == 2 ^ params.rootH

\* The height of a chain tree at layer chainLayer.  The counters of the
\* program are uint32; the bounds of the model keep every value far below
\* 2^32, and heights are at least 1, so no operation here wraps.
deriveChainTreeHeight(chainLayer) ==
    params.chanH + params.ge * chainLayer

\* deriveChannel: a new channel object for index chIdx.
deriveChannel(chIdx) ==
    [idx |-> chIdx, layers |-> 0, chainSeqNo |-> 0, seqNo |-> 0]

\* sk.getChannel(chIdx): channel chIdx is stored at position chIdx - 1 of the
\* Go slice, which is position chIdx of the sequence.
getChannel(chIdx) == Channels[chIdx]

\* Whether sk.Channels holds a channel at index chIdx.
hasChannel(chIdx) == chIdx \in 1 .. Len(Channels)

\* sk.getChannelLayer(chIdx): the current layer of the channel.
getChannelLayer(chIdx) == heap[getChannel(chIdx)].layers

\* The condition of line 300 comparing with the height, not the height - 1.
lastKeyReached_AtHeight(layers, chainSeqNo) ==
    deriveChainTreeHeight(layers) = chainSeqNo

\* deriveChainTreeHeight(ch.layers)-1 == uint32(ch.chainSeqNo), on the values
\* read of the two fields.
lastKeyReached(layers, chainSeqNo) ==
    deriveChainTreeHeight(layers) - 1 = chainSeqNo

otsAddress(layer, tree, ots) == [layer |-> layer, tree |-> tree, ots |-> ots]

(***************************************************************************)
(* The buffer of a chain tree (src/channel.go:131-161, 200-203).           *)
(***************************************************************************)
\* make([]byte, (2*height-1)*2): the length of the buffer of newChainTree.
newChainTree(height, n) == (2 * height - 1) * 2

\* ptr of a node whose index is not counted.
nodeOffset_NoIndex(n, height, idx) == n * (2 * height)

\* ptr := ct.n * (2*height + idx)
nodeOffset(n, height, idx) == n * (2 * height + idx)

\* ct.buf[ptr : ptr+ct.n] of ct.node(height, idx) is in range of a buffer of
\* buf bytes.
inBuffer(buf, n, height, idx) == nodeOffset(n, height, idx) + n <= buf

\* The node whose slice ct.leaf(idx) returns.
leafNode(idx) == IF idx = 0 THEN <<0, 0>> ELSE <<idx - 1, 1>>

\* The node whose slice ct.AuthPath(keyQty) returns: node(keyQty - 1, 0).
AuthPathNode(keyQty) == <<keyQty - 1, 0>>

\* The nodes genChainTreeInto takes slices of: the leaves 0 .. height - 1
\* (lines 69-74, 102-110), and node(h - 1, 0), node(h - 1, 1) and node(h, 0)
\* for h in 1 .. height - 1 (lines 121-127).
genSlices(height) ==
    {leafNode(k) : k \in 0 .. height - 1}
      \cup {<<h - 1, 0>> : h \in 1 .. height - 1}
      \cup {<<h - 1, 1>> : h \in 1 .. height - 1}
      \cup {<<h, 0>> : h \in 1 .. height - 1}

\* genChainTree(pad, chIdx, chLayer) on a tree of this height ends in a
\* panic: a slice of genChainTreeInto leaves the buffer of newChainTree.
genChainTreePanics(height, n) ==
    \E hi \in genSlices(height) :
       ~inBuffer(newChainTree(height, n), n, hi[1], hi[2])

(***************************************************************************)
(* Hash values.  A byte string is a term that records how it was computed, *)
(* so that two values are equal exactly when they were computed the same   *)
(* way from the same inputs: the hash functions are taken as injective.    *)
(* pubSeed, skSeed, skPrf and pk.root are fixed for a key pair and left    *)
(* out of the terms.                                                       *)
(***************************************************************************)
\* An n-byte string given by a caller.
bytes(name) == [data |-> name]

\* uint64(chIdx)<<32 + uint64(seqNo): the two 32-bit halves of the index.
sigIdx64(chIdx, sn) == <<chIdx, sn>>

prfUint64(idx) == [prf |-> idx]

hashMessage(msg, drv, idx) == [hm |-> msg, hdrv |-> drv, hidx |-> idx]

\* The error of hashMessage: the specification gives H_msg as a function of
\* its inputs that yields n bytes, with no failure.
hashMessageFails == FALSE

\* The WOTS+ signature of hash with the one-time key at otsAddr.
wotsSign(hash, otsAddr) == [ws |-> hash, wa |-> otsAddr]

\* The WOTS+ public key of the one-time key at otsAddr.
wotsPk(otsAddr) == [pk |-> otsAddr]

\* The public key recomputed from a signature: the key at otsAddr when the
\* signature was made by that key over that hash, another value otherwise.
wotsPkFromSig(sig, hash, otsAddr) ==
    IF sig = wotsSign(hash, otsAddr)
    THEN wotsPk(otsAddr)
    ELSE [badSig |-> sig, badHash |-> hash, badAddr |-> otsAddr]

lTree(pk, lTreeAddr) == [lt |-> pk, lta |-> lTreeAddr]

\* genLeaf: the L-tree of the public key at otsAddr, both addresses of the
\* same index.
genLeaf(otsAddr) == lTree(wotsPk(otsAddr), otsAddr)

\* hInto(pad, left, right, ph, nodeAddr, out)
hInto(left, right, layer, tree, height, index) ==
    [l |-> left, r |-> right, ha |-> <<layer, tree, height, index>>]

(***************************************************************************)
(* The chain tree of layer chLayer of channel chIdx                        *)
(* (src/channel.go:49-147, 200-203), as genChainTreeInto fills a buffer    *)
(* that holds all its nodes.                                               *)
(***************************************************************************)
RECURSIVE node(_, _, _, _)
\* ct.node(height, idx) after genChainTreeInto: node(h, 1) holds leaf h + 1,
\* node(0, 0) leaf 0, and node(h, 0) the hash of the two nodes below it.
node(chLayer, chIdx, height, idx) ==
    IF idx = 1 THEN genLeaf(otsAddress(chLayer, chIdx, height + 1))
    ELSE IF height = 0 THEN genLeaf(otsAddress(chLayer, chIdx, 0))
    ELSE hInto(node(chLayer, chIdx, height - 1, 0),
               node(chLayer, chIdx, height - 1, 1),
               chLayer, chIdx, height - 1, 0)

\* ct.getRootNode(): node(ct.height - 1, 0)
getRootNode(chLayer, chIdx) ==
    node(chLayer, chIdx, deriveChainTreeHeight(chLayer) - 1, 0)

\* ct.AuthPath(keyQty): the bytes of node(keyQty - 1, 0)
AuthPath(chLayer, chIdx, keyQty) ==
    node(chLayer, chIdx, AuthPathNode(keyQty)[1], AuthPathNode(keyQty)[2])

(***************************************************************************)
(* The root tree: a balanced Merkle tree of height rootH over the leaves   *)
(* of the OTS keys (layer 0, tree 0, k).                                   *)
(***************************************************************************)
RECURSIVE rootTreeNode(_, _)
rootTreeNode(height, idx) ==
    IF height = 0 THEN genLeaf(otsAddress(0, 0, idx))
    ELSE hInto(rootTreeNode(height - 1, 2 * idx),
               rootTreeNode(height - 1, 2 * idx + 1),
               0, 0, height - 1, idx)

\* pk.root
pkRoot == rootTreeNode(params.rootH, 0)

\* x XOR 1
xor1(x) == IF x % 2 = 0 THEN x + 1 ELSE x - 1

\* rt.AuthPath(k): the siblings node(h, (k >> h) XOR 1), h = 0 .. rootH - 1.
rootAuthPath(k) ==
    [h \in 1 .. params.rootH |-> rootTreeNode(h - 1, xor1(k \div 2 ^ (h - 1)))]

(***************************************************************************)
(* SignChannelRoot and VerifyChannelRoot (src/mbpqs.go:193-281).           *)
(***************************************************************************)
\* The RootSignature of lines 200-224 made with root-tree index sn.
rootSignature(chRt, sn) ==
    LET drv == prfUint64(sigIdx64(0, sn)) IN
    [seqNo |-> sn,
     drv |-> drv,
     wotsSig |-> wotsSign(hashMessage(chRt, drv, sigIdx64(0, sn)),
                          otsAddress(0, 0, sn)),
     authPath |-> rootAuthPath(sn),
     rootHash |-> chRt]

RECURSIVE hashUp(_, _, _, _)
\* The loop with curHash always placed left.
hashUp_NoSwap(authPath, curHash, index, height) ==
    IF height > params.rootH THEN curHash
    ELSE hashUp(authPath,
                hInto(curHash, authPath[height], 0, 0, height - 1,
                      index \div 2),
                index \div 2, height + 1)

\* The loop of lines 256-274 from level height on: curHash is placed left
\* when the low bit of index is 0, and hashed with the sibling under the
\* node address (height - 1, index >> 1).
hashUp(authPath, curHash, index, height) ==
    IF height > params.rootH THEN curHash
    ELSE LET sibling == authPath[height]
             left == IF index % 2 = 0 THEN curHash ELSE sibling
             right == IF index % 2 = 0 THEN sibling ELSE curHash
         IN hashUp(authPath,
                   hInto(left, right, 0, 0, height - 1, index \div 2),
                   index \div 2, height + 1)

\* The value VerifyChannelRoot compares with pk.root.
verifiedRoot(rtSig, chRt) ==
    LET hashChRt == hashMessage(chRt, rtSig.drv, sigIdx64(0, rtSig.seqNo))
        otsAddr == otsAddress(0, 0, rtSig.seqNo)
        pk == wotsPkFromSig(rtSig.wotsSig, hashChRt, otsAddr)
    IN hashUp(rtSig.authPath, lTree(pk, otsAddr), rtSig.seqNo, 1)

VerifyChannelRoot(rtSig, chRt) == verifiedRoot(rtSig, chRt) = pkRoot

(***************************************************************************)
(* The signature of SignChannelMsg and VerifyChannelMsg                    *)
(* (src/mbpqs.go:332-368, 403-453).                                        *)
(***************************************************************************)
\* The field rootSig of a MsgSignature that SignChannelMsg leaves unset.
nilRootSig == [nil |-> TRUE]

\* The MsgSignature of lines 332-368 over msg, with the numbers
\* ChannelSeqNos returned and the layer read at line 339.
signedMsg(chIdx, msg, chLayer, chainSeqNo, sn) ==
    LET drv == prfUint64(sigIdx64(chIdx, sn)) IN
    [chainSeqNo |-> chainSeqNo,
     seqNo |-> sn,
     chIdx |-> chIdx,
     layer |-> chLayer,
     drv |-> drv,
     wotsSig |-> wotsSign(hashMessage(msg, drv, sigIdx64(chIdx, sn)),
                          otsAddress(chLayer, chIdx, chainSeqNo)),
     authPath |-> AuthPath(chLayer, chIdx, chainSeqNo),
     rootSig |-> nilRootSig]

\* ctx.getNodeHeight(layer, chainSeqNo): the tree height of the node a
\* signature with chain index chainSeqNo is hashed into.
getNodeHeight(chLayer, chainSeqNo) == chainSeqNo

\* The value VerifyChannelMsg compares with authNode (lines 406-443).
verifiedNode(sig, msg) ==
    LET hashMsg == hashMessage(msg, sig.drv, sigIdx64(sig.chIdx, sig.seqNo))
        otsAddr == otsAddress(sig.layer, sig.chIdx, sig.chainSeqNo)
        pk == wotsPkFromSig(sig.wotsSig, hashMsg, otsAddr)
    IN hInto(sig.authPath, lTree(pk, otsAddr), sig.layer, sig.chIdx,
             getNodeHeight(sig.layer, sig.chainSeqNo), 0)

VerifyChannelMsg(sig, msg, authNode) == verifiedNode(sig, msg) = authNode


\* The signer state: sk.seqNo, sk.Channels and the counters of the channels.
signerState ==
    <<seqNo, Channels, [c \in 1 .. Len(Channels) |-> heap[Channels[c]]]>>

(***************************************************************************)
(* Helpers of the actions.                                                 *)
(***************************************************************************)
Goto(p, label) == pc' = [pc EXCEPT ![p] = label]

Return(p, ev) ==
    /\ pc' = [pc EXCEPT ![p] = "idle"]
    /\ loc' = [loc EXCEPT ![p] = NoLoc]
    /\ last' = ev

\* A run-time panic (a slice that leaves its buffer, an index into
\* sk.Channels that is out of range): no function recovers it, and the
\* program ends with the state as it is.
Panic(p) ==
    /\ pc' = [pc EXCEPT ![p] = "panic"]
    /\ last' = [op |-> loc[p].op, err |-> "panic"]
    /\ UNCHANGED loc

Crashed == \E q \in AllProcs : pc[q] = "panic"

UseOTS(addr) ==
    /\ otsUsed' = otsUsed \cup {addr}
    /\ otsReused' = IF addr \in otsUsed THEN otsReused \cup {addr} ELSE otsReused

(***************************************************************************)
(* The calls a goroutine can start.                                        *)
(***************************************************************************)
CallGetSeqNo(p) ==
    /\ pc[p] = "idle"
    /\ Goto(p, "gs_lock")
    /\ loc' = [loc EXCEPT ![p] = [NoLoc EXCEPT !.op = "GetSeqNo"]]
    /\ UNCHANGED <<params, shared, history, last>>

CallSignChannelRoot(p) ==
    /\ pc[p] = "idle"
    /\ Goto(p, "gs_lock")
    /\ loc' = [loc EXCEPT ![p] = [NoLoc EXCEPT !.op = "SignChannelRoot"]]
    /\ UNCHANGED <<params, shared, history, last>>

CallCreateChannel(p) ==
    /\ pc[p] = "idle"
    /\ Len(heap) < RootKeys + MaxExtraChannels
    /\ Goto(p, "cc_len")
    /\ loc' = [loc EXCEPT ![p] = [NoLoc EXCEPT !.op = "createChannel"]]
    /\ UNCHANGED <<params, shared, history, last>>

CallSignChannelMsg(p, chIdx, lastOne) ==
    /\ pc[p] = "idle"
    /\ hasChannel(chIdx) =>
         heap[getChannel(chIdx)].chainSeqNo
           < deriveChainTreeHeight(getChannelLayer(chIdx)) + MaxOverrun
    /\ Goto(p, "sm_check")
    /\ loc' = [loc EXCEPT ![p] = [NoLoc EXCEPT !.op = "SignChannelMsg",
                                               !.chIdx = chIdx,
                                               !.lastOne = lastOne]]
    /\ UNCHANGED <<params, shared, history, last>>

\* getChannel indexes sk.Channels without a check: GrowChannel on an index
\* that holds no channel is an index-out-of-range panic, so the calls are
\* drawn from the channels that exist.
CallGrowChannel(p, chIdx) ==
    /\ pc[p] = "idle"
    /\ hasChannel(chIdx)
    /\ getChannelLayer(chIdx) < MaxLayers
    /\ Goto(p, "gc_check")
    /\ loc' = [loc EXCEPT ![p] = [NoLoc EXCEPT !.op = "GrowChannel",
                                               !.chIdx = chIdx]]
    /\ UNCHANGED <<params, shared, history, last>>

(***************************************************************************)
(* GetSeqNo (src/mbpqs.go:284-295), also the first step of SignChannelRoot.*)
(***************************************************************************)
GetSeqNoLock(p) ==
    /\ pc[p] = "gs_lock"
    /\ skMux = 0
    /\ skMux' = p
    /\ Goto(p, "gs_body")
    /\ UNCHANGED <<params, seqNo, Channels, heap, loc, last, history>>

\* The check of line 290 with > for >=.
outOfRootKeys_OffByOne == seqNo > RootKeys

\* The check of line 290.
outOfRootKeys == seqNo >= RootKeys

\* GetSeqNo without the increment of line 293.
nextSeqNo_NoIncrement == seqNo

\* The counter after sk.seqNo++.
nextSeqNo == seqNo + 1

\* The critical section; the deferred Unlock runs on both returns.
GetSeqNoBody(p) ==
    /\ pc[p] = "gs_body"
    /\ skMux' = 0
    /\ IF outOfRootKeys
       THEN /\ Return(p, [op |-> loc[p].op, err |-> "OutOfRootKeys"])
            /\ UNCHANGED <<seqNo, rootLog>>
       ELSE /\ seqNo' = nextSeqNo
            /\ rootLog' = Append(rootLog, seqNo' - 1)
            /\ IF loc[p].op = "GetSeqNo"
               THEN Return(p, [op |-> "GetSeqNo", err |-> "nil"])
               ELSE /\ Goto(p, "scr_sign")
                    /\ loc' = [loc EXCEPT ![p].seqNo = seqNo' - 1,
                                          ![p].wrote = TRUE]
                    /\ UNCHANGED last
    /\ UNCHANGED <<params, Channels, heap, msgSigs, dupMsg, otsUsed, otsReused>>

(***************************************************************************)
(* SignChannelRoot after GetSeqNo (src/mbpqs.go:200-224): the WOTS+        *)
(* signature with the OTS key of the root tree at index seqNo.             *)
(***************************************************************************)
SignChannelRootSign(p) ==
    /\ pc[p] = "scr_sign"
    /\ UseOTS(otsAddress(0, 0, loc[p].seqNo))
    /\ Return(p, [op |-> loc[p].op, err |-> "nil"])
    /\ UNCHANGED <<params, shared, rootLog, msgSigs, dupMsg>>

(***************************************************************************)
(* createChannel (src/mbpqs.go:374-400).                                   *)
(***************************************************************************)
\* uint32(len(sk.Channels) + 1)
newChIdx == Len(Channels) + 1

\* chIdx := uint32(len(sk.Channels) + 1)
createChannelLen(p) ==
    /\ pc[p] = "cc_len"
    /\ loc' = [loc EXCEPT ![p].chIdx = newChIdx]
    /\ Goto(p, "cc_derive")
    /\ UNCHANGED <<params, shared, history, last>>

\* ch := sk.deriveChannel(chIdx), and the read of sk.Channels by append.
createChannelDerive(p) ==
    /\ pc[p] = "cc_derive"
    /\ heap' = Append(heap, deriveChannel(loc[p].chIdx))
    /\ loc' = [loc EXCEPT ![p].ch = Len(heap) + 1, ![p].tmp = Channels]
    /\ Goto(p, "cc_append")
    /\ UNCHANGED <<params, seqNo, skMux, Channels, history, last>>

\* sk.Channels = append(sk.Channels, ch): the write.
createChannelAppend(p) ==
    /\ pc[p] = "cc_append"
    /\ Channels' = Append(loc[p].tmp, loc[p].ch)
    /\ loc' = [loc EXCEPT ![p].tmp = << >>, ![p].wrote = TRUE]
    /\ Goto(p, "cc_update")
    /\ UNCHANGED <<params, seqNo, skMux, heap, history, last>>

\* ch.mux.Lock(); ch.layers++; ch.chainSeqNo = 0; ch.mux.Unlock()
createChannelUpdate(p) ==
    /\ pc[p] = "cc_update"
    /\ heap' = [heap EXCEPT ![loc[p].ch].layers = @ + 1,
                            ![loc[p].ch].chainSeqNo = 0]
    /\ Goto(p, "cc_gen")
    /\ UNCHANGED <<params, seqNo, skMux, Channels, loc, history, last>>

\* ct := sk.genChainTree(pad, chIdx, 1), line 390: the tree of layer 1 is
\* allocated by newChainTree and generated.  A slice that leaves the buffer
\* ends the call in a panic; otherwise root := ct.getRootNode() and
\* SignChannelRoot(root) follows.
createChannelGen(p) ==
    /\ pc[p] = "cc_gen"
    /\ IF genChainTreePanics(deriveChainTreeHeight(1), params.n)
       THEN Panic(p)
       ELSE Goto(p, "gs_lock") /\ UNCHANGED <<loc, last>>
    /\ UNCHANGED <<params, shared, history>>

(***************************************************************************)
(* SignChannelMsg (src/mbpqs.go:311-371).                                  *)
(***************************************************************************)
\* The fields of the channel the checks of lines 300 and 323 read.  They
\* are read without the channel's mutex, one after the other; the order of
\* the two reads is not fixed by the language, so either comes first.
CheckFields == {"layers", "chainSeqNo"}

fieldOf(ch, f) == IF f = "layers" THEN heap[ch].layers ELSE heap[ch].chainSeqNo

\* The values of ch.layers and ch.chainSeqNo a check compares: the field
\* read first as it was then, the other as it is now.
readLayers(p) ==
    IF loc[p].rd = "layers" THEN loc[p].val ELSE heap[loc[p].ch].layers

readChainSeqNo(p) ==
    IF loc[p].rd = "chainSeqNo" THEN loc[p].val ELSE heap[loc[p].ch].chainSeqNo

\* The condition of line 323 comparing with the height, not the height - 1.
mustGrowFirst_OffByOne(lastOne, layers, chainSeqNo) ==
    ~lastOne /\ deriveChainTreeHeight(layers) = chainSeqNo

\* The condition of line 323.
mustGrowFirst(lastOne, layers, chainSeqNo) ==
    ~lastOne /\ lastKeyReached(layers, chainSeqNo)

\* Lines 313-323: the checks of chIdx, ch := sk.getChannel(chIdx) and, when
\* lastOne is false, the first read of the condition of line 323.
SignChannelMsgCheck(p) ==
    /\ pc[p] = "sm_check"
    /\ IF loc[p].chIdx = 0 \/ loc[p].chIdx >= Len(Channels) + 1
       THEN Return(p, [op |-> loc[p].op, err |-> "UnknownChannel"])
       ELSE IF loc[p].lastOne
       THEN /\ Goto(p, "sm_seqnos")
            /\ loc' = [loc EXCEPT ![p].ch = getChannel(loc[p].chIdx)]
            /\ UNCHANGED last
       ELSE \E f \in CheckFields :
               /\ Goto(p, "sm_read")
               /\ loc' = [loc EXCEPT
                            ![p].ch = getChannel(loc[p].chIdx),
                            ![p].rd = f,
                            ![p].val = fieldOf(getChannel(loc[p].chIdx), f)]
               /\ UNCHANGED last
    /\ UNCHANGED <<params, shared, history>>

\* Lines 323-325: the second read of the condition, and its outcome.
SignChannelMsgRead(p) ==
    /\ pc[p] = "sm_read"
    /\ IF mustGrowFirst(loc[p].lastOne, readLayers(p), readChainSeqNo(p))
       THEN Return(p, [op |-> loc[p].op, err |-> "MustGrowFirst"])
       ELSE /\ Goto(p, "sm_seqnos")
            /\ loc' = [loc EXCEPT ![p].rd = "none", ![p].val = 0]
            /\ UNCHANGED last
    /\ UNCHANGED <<params, shared, history>>

\* sk.ChannelSeqNos(chIdx), line 330: under the channel's mutex both counters
\* advance; the signature gets the advanced chainSeqNo and the seqNo before
\* the increment.
ChannelSeqNos(p) ==
    /\ pc[p] = "sm_seqnos"
    /\ IF ~hasChannel(loc[p].chIdx)
       THEN Panic(p) /\ UNCHANGED heap
       ELSE LET ch == getChannel(loc[p].chIdx) IN
            /\ heap' = [heap EXCEPT ![ch].chainSeqNo = @ + 1,
                                    ![ch].seqNo = @ + 1]
            /\ loc' = [loc EXCEPT ![p].chainSeqNo = heap[ch].chainSeqNo + 1,
                                  ![p].seqNo = heap[ch].seqNo,
                                  ![p].wrote = TRUE]
            /\ Goto(p, "sm_sign")
            /\ UNCHANGED last
    /\ UNCHANGED <<params, seqNo, skMux, Channels, history>>

\* The MsgSignature of lines 359-368.
msgSignature(chIdx, chLayer, chainSeqNo, sn) ==
    [chIdx |-> chIdx, seqNo |-> sn, chainSeqNo |-> chainSeqNo, layer |-> chLayer]

\* Lines 339-370.  The layer is read and the chain tree of that layer
\* allocated and generated (line 341): a slice that leaves the buffer, in
\* genChainTreeInto or in ct.AuthPath(chainSeqNo) (line 351), ends the call
\* in a panic.  Otherwise the message is hashed, an error of hashMessage is
\* returned (lines 354-356), and else the message is signed with the OTS key
\* (chLayer, chIdx, chainSeqNo) and the signature returned: to the caller,
\* or to appendChainTree when the call is the one it makes.  No counter of
\* the channel is written in these lines.
SignChannelMsgSign(p) ==
    /\ pc[p] = "sm_sign"
    /\ IF ~hasChannel(loc[p].chIdx)
       THEN Panic(p) /\ UNCHANGED <<heap, history>>
       ELSE LET ch == getChannel(loc[p].chIdx)
                chLayer == getChannelLayer(loc[p].chIdx)
                height == deriveChainTreeHeight(chLayer)
                ap == AuthPathNode(loc[p].chainSeqNo)
                sig == msgSignature(loc[p].chIdx, chLayer,
                                    loc[p].chainSeqNo, loc[p].seqNo)
            IN
            IF \/ genChainTreePanics(height, params.n)
               \/ ~inBuffer(newChainTree(height, params.n), params.n,
                            ap[1], ap[2])
            THEN Panic(p) /\ UNCHANGED <<heap, history>>
            ELSE IF hashMessageFails
            THEN /\ Return(p, [op |-> loc[p].op, err |-> "HashFailure"])
                 /\ UNCHANGED <<heap, history>>
            ELSE /\ UseOTS(otsAddress(chLayer, loc[p].chIdx, loc[p].chainSeqNo))
                 /\ msgSigs' = msgSigs \cup {sig}
                 /\ dupMsg' = IF \E s \in msgSigs : /\ s.chIdx = sig.chIdx
                                                    /\ s.seqNo = sig.seqNo
                              THEN dupMsg \cup {<<sig.chIdx, sig.seqNo>>}
                              ELSE dupMsg
                 /\ IF loc[p].op = "GrowChannel"
                    THEN Goto(p, "act_update") /\ UNCHANGED <<loc, last>>
                    ELSE Return(p, [op |-> loc[p].op, err |-> "nil"])
                 /\ UNCHANGED <<heap, rootLog>>
    /\ UNCHANGED <<params, seqNo, skMux, Channels>>

(***************************************************************************)
(* GrowChannel (src/mbpqs.go:298-307) and appendChainTree.                 *)
(***************************************************************************)
\* Lines 299-300: ch := sk.getChannel(chIdx) and the first read of the
\* condition of line 300.
GrowChannelCheck(p) ==
    /\ pc[p] = "gc_check"
    /\ IF ~hasChannel(loc[p].chIdx)
       THEN Panic(p)
       ELSE \E f \in CheckFields :
               /\ Goto(p, "gc_read")
               /\ loc' = [loc EXCEPT
                            ![p].ch = getChannel(loc[p].chIdx),
                            ![p].rd = f,
                            ![p].val = fieldOf(getChannel(loc[p].chIdx), f)]
               /\ UNCHANGED last
    /\ UNCHANGED <<params, shared, history>>

\* Lines 300-306: the second read of the condition; the call goes on to
\* appendChainTree when the values read satisfy it.
GrowChannelRead(p) ==
    /\ pc[p] = "gc_read"
    /\ IF lastKeyReached(readLayers(p), readChainSeqNo(p))
       THEN /\ Goto(p, "act_gen")
            /\ loc' = [loc EXCEPT ![p].rd = "none", ![p].val = 0]
            /\ UNCHANGED last
       ELSE Return(p, [op |-> "GrowChannel", err |-> "ChannelNotGrowable"])
    /\ UNCHANGED <<params, shared, history>>

\* appendChainTree builds the chain tree of the next layer with
\* genChainTree, and signs its root with SignChannelMsg(chIdx, root, true).
appendChainTreeGen(p) ==
    /\ pc[p] = "act_gen"
    /\ IF ~hasChannel(loc[p].chIdx)
       THEN Panic(p)
       ELSE IF genChainTreePanics(
                 deriveChainTreeHeight(getChannelLayer(loc[p].chIdx) + 1),
                 params.n)
       THEN Panic(p)
       ELSE /\ Goto(p, "sm_check")
            /\ loc' = [loc EXCEPT ![p].lastOne = TRUE]
            /\ UNCHANGED last
    /\ UNCHANGED <<params, shared, history>>

\* appendChainTree, after its SignChannelMsg has returned the signature:
\* under the channel's mutex the layer is added, layers++ and
\* chainSeqNo = 0, and GrowChannel returns the grow signature.
appendChainTreeUpdate(p) ==
    /\ pc[p] = "act_update"
    /\ IF ~hasChannel(loc[p].chIdx)
       THEN Panic(p) /\ UNCHANGED heap
       ELSE LET ch == getChannel(loc[p].chIdx) IN
            /\ heap' = [heap EXCEPT ![ch].layers = @ + 1,
                                    ![ch].chainSeqNo = 0]
            /\ Return(p, [op |-> "GrowChannel", err |-> "nil"])
    /\ UNCHANGED <<params, seqNo, skMux, Channels, history>>

(***************************************************************************)
(* genChainTree (src/channel.go:42-128) as a run of goroutines: the caller,*)
(* and the workers that compute the leaves when ctx.threads # 1.  The tree *)
(* ct is the sequence of the slots of n bytes its buffer holds, slot       *)
(* 2 * h + i + 1 being the one of node(h, i).  A slice that leaves the     *)
(* buffer is a panic of the goroutine that takes it, which ends the run.   *)
(***************************************************************************)
\* var perBatch uint32 = 32
perBatch == 32

\* Heights of the chain trees generated: one leaf, less than one batch, one
\* batch and a leaf, and more than two batches.
GenHeights == {1, 3, 33, 65}

\* Layer and channel of the tree generated.
GenLayer == 1
GenChIdx == 1

\* A node slot of a tree that was allocated and not written.
zeroBytes == [zero |-> TRUE]

\* wr and batches record the run: wr[k] lists the goroutines that wrote leaf
\* k, in order (0 is the caller), and batches holds <<w, ourIdx, ourEnd>> for
\* every batch of leaves worker w took.
\* nh is the height of the loop over the internal nodes (line 119).
NoGen == [height |-> 0, n |-> 0, buf |-> 0, threads |-> 0, workers |-> 0,
          idx |-> 0, mux |-> 0, mpc |-> "off", wpc |-> << >>,
          ourIdx |-> << >>, ourEnd |-> << >>, nh |-> 0, ct |-> << >>,
          wr |-> << >>, batches |-> {}]

\* The slot of ct.node(height, idx): its offset n * (2 * height + idx) in
\* units of n bytes.
nodeSlot(height, idx) == 2 * height + idx + 1

\* The slot of ct.leaf(idx).
leafSlot(idx) == nodeSlot(leafNode(idx)[1], leafNode(idx)[2])

\* The slice of ct.leaf(idx) is in range of the buffer of g.
leafInBuffer(g, idx) ==
    inBuffer(g.buf, g.n, leafNode(idx)[1], leafNode(idx)[2])

\* copy(ct.leaf(idx), genLeaf(...)) with the addresses set to idx.
writeLeaf(ct, idx) ==
    [ct EXCEPT ![leafSlot(idx)] = genLeaf(otsAddress(GenLayer, GenChIdx, idx))]

\* genChainTree: ct := newChainTree(height, n), and the caller enters
\* genChainTreeInto: with ctx.threads = 1 it computes the leaves itself,
\* otherwise it starts the workers and waits for them.
genStart ==
    /\ gen.mpc = "start"
    /\ LET buf == newChainTree(gen.height, gen.n)
           g == [gen EXCEPT !.buf = buf,
                            !.ct = [i \in 1 .. buf \div gen.n |-> zeroBytes]]
       IN gen' = IF gen.threads = 1
                 THEN [g EXCEPT !.mpc = "leaves"]
                 ELSE [g EXCEPT !.mpc = "wait",
                                !.wpc = [w \in 1 .. MaxThreads |->
                                           IF w <= gen.workers
                                           THEN "lock" ELSE "off"]]

\* Lines 69-74: one turn of the loop of the single thread; after the last
\* one the caller goes on to the internal nodes (height = 1, line 121).
genSeqLeaf ==
    /\ gen.mpc = "leaves"
    /\ gen' = IF gen.idx < gen.height
              THEN IF leafInBuffer(gen, gen.idx)
                   THEN [gen EXCEPT !.ct = writeLeaf(@, gen.idx),
                                    !.idx = @ + 1,
                                    !.wr[gen.idx] = Append(@, 0)]
                   ELSE [gen EXCEPT !.mpc = "panic"]
              ELSE [gen EXCEPT !.mpc = "nodes", !.nh = 1]

\* mux.Lock()
workerLock(w) ==
    /\ gen.mpc = "wait"
    /\ gen.wpc[w] = "lock"
    /\ gen.mux = 0
    /\ gen' = [gen EXCEPT !.mux = w, !.wpc[w] = "take"]

\* idx += perBatch
nextIdx(idx) == idx + perBatch

\* Lines 98-101: ourEnd := ourIdx + perBatch, cut at ct.height.
batchEnd(ourIdx, height) ==
    IF ourIdx + perBatch > height THEN height ELSE ourIdx + perBatch

\* Every worker has called wg.Done(): the counter of wg is 0.
wgDone(wpc, workers) == \A w \in 1 .. workers : wpc[w] = "done"

\* Lines 92-94, under the mutex: ourIdx = idx; idx += perBatch;
\* mux.Unlock().
workerTake(w) ==
    /\ gen.mpc = "wait"
    /\ gen.wpc[w] = "take"
    /\ gen' = [gen EXCEPT !.ourIdx[w] = gen.idx,
                          !.idx = nextIdx(@),
                          !.mux = 0,
                          !.wpc[w] = "batch"]

\* Lines 95-101 and 112, after the mutex was released: the worker leaves the
\* loop when its index is not below the height and calls wg.Done(); else it
\* has the batch [ourIdx, ourEnd).
workerBatch(w) ==
    /\ gen.mpc = "wait"
    /\ gen.wpc[w] = "batch"
    /\ LET our == gen.ourIdx[w]
           ourEnd == batchEnd(our, gen.height)
       IN gen' = IF our >= gen.height
                 THEN [gen EXCEPT !.wpc[w] = "done"]
                 ELSE [gen EXCEPT !.ourEnd[w] = ourEnd,
                                  !.wpc[w] = "leaves",
                                  !.batches = @ \cup {<<w, our, ourEnd>>}]

\* Line 115, the caller: wg.Wait() returns once every worker has called
\* wg.Done(); the caller goes on to the internal nodes (height = 1).
genWait ==
    /\ gen.mpc = "wait"
    /\ wgDone(gen.wpc, gen.workers)
    /\ gen' = [gen EXCEPT !.mpc = "nodes", !.nh = 1]

\* Lines 121-127, the caller: one turn of the loop over the internal nodes,
\* node(height, 0) is the hash of node(height - 1, 0) and
\* node(height - 1, 1); a slice that leaves the buffer is a panic.
genNode ==
    /\ gen.mpc = "nodes"
    /\ LET h == gen.nh IN
       gen' = IF h >= gen.height THEN [gen EXCEPT !.mpc = "done"]
              ELSE IF \/ ~inBuffer(gen.buf, gen.n, h - 1, 0)
                      \/ ~inBuffer(gen.buf, gen.n, h - 1, 1)
                      \/ ~inBuffer(gen.buf, gen.n, h, 0)
              THEN [gen EXCEPT !.mpc = "panic"]
              ELSE [gen EXCEPT !.ct[nodeSlot(h, 0)] =
                                  hInto(gen.ct[nodeSlot(h - 1, 0)],
                                        gen.ct[nodeSlot(h - 1, 1)],
                                        GenLayer, GenChIdx, h - 1, 0),
                               !.nh = h + 1]

\* Lines 102-110: one turn of the loop over the batch.
workerLeaf(w) ==
    /\ gen.mpc = "wait"
    /\ gen.wpc[w] = "leaves"
    /\ gen' = IF gen.ourIdx[w] < gen.ourEnd[w]
              THEN IF leafInBuffer(gen, gen.ourIdx[w])
                   THEN [gen EXCEPT !.ct = writeLeaf(@, gen.ourIdx[w]),
                                    !.ourIdx[w] = @ + 1,
                                    !.wr[gen.ourIdx[w]] = Append(@, w)]
                   ELSE [gen EXCEPT !.mpc = "panic", !.wpc[w] = "panic"]
              ELSE [gen EXCEPT !.wpc[w] = "lock"]

(***************************************************************************)
(* The workers of genChainTreeInto (src/channel.go:78-116) with the width  *)
(* of their numbers: idx, ourIdx, ourEnd, ptr and the length handed to     *)
(* make are uint32 in the code, words of IdxBits bits here, and every sum  *)
(* and product is taken modulo 2^IdxBits.  The loop of lines 102-110 over  *)
(* a batch is one step.                                                    *)
(***************************************************************************)
\* The width of a word that stands for uint32.
IdxBits == 12
IdxMod == 2 ^ IdxBits

\* Heights of the chain trees generated: the sum chanH + ge * chLayer as a
\* word, which is 0 when it wraps, one leaf, a batch and a leaf, and the
\* heights around the last multiple of perBatch that a word holds.
WrapHeights == {0, 1, perBatch + 1, IdxMod - 2 * perBatch,
                IdxMod - perBatch - 1, IdxMod - perBatch,
                IdxMod - perBatch + 1, IdxMod - 1}

\* at is the leaf whose slice ended the run in a panic, [lo, hi) its bounds.
NoPar == [height |-> 0, n |-> 0, buf |-> 0, workers |-> 0, idx |-> 0,
          mux |-> 0, mpc |-> "off", wpc |-> << >>, ourIdx |-> << >>,
          ourEnd |-> << >>, at |-> 0, lo |-> 0, hi |-> 0]

\* a + b, a - b and a * b of two words.
addWord(a, b) == (a + b) % IdxMod
subWord(a, b) == (a - b + IdxMod) % IdxMod
mulWord(a, b) == (a * b) % IdxMod

\* (2*height-1)*2 as a word: the length of the buffer of newChainTree.
wordBuffer(height) == mulWord(subWord(mulWord(2, height), 1), 2)

\* ptr := ct.n * (2*height + idx) as a word.
wordOffset(n, height, idx) == mulWord(n, addWord(mulWord(2, height), idx))

\* ct.buf[ptr : ptr+ct.n] is in range: ptr <= ptr+ct.n <= len(ct.buf).
wordInBuffer(buf, n, height, idx) ==
    LET ptr == wordOffset(n, height, idx)
    IN ptr <= addWord(ptr, n) /\ addWord(ptr, n) <= buf

\* The node of ct.leaf(idx): idx - 1 is taken for idx > 0.
wordLeafNode(idx) == IF idx = 0 THEN <<0, 0>> ELSE <<subWord(idx, 1), 1>>

\* The leaves of [from, to) whose slice is out of range.
badLeaves(from, to) ==
    {k \in from .. to - 1 :
        ~wordInBuffer(par.buf, par.n, wordLeafNode(k)[1], wordLeafNode(k)[2])}

\* The least number of a set of numbers.
least(S) == CHOOSE k \in S : \A j \in S : k <= j

\* mux.Lock()
parLock(w) ==
    /\ par.mpc = "wait"
    /\ par.wpc[w] = "lock"
    /\ par.mux = 0
    /\ par' = [par EXCEPT !.mux = w, !.wpc[w] = "take"]

\* Lines 92-94, under the mutex: ourIdx = idx; idx += perBatch;
\* mux.Unlock().
parTake(w) ==
    /\ par.mpc = "wait"
    /\ par.wpc[w] = "take"
    /\ par' = [par EXCEPT !.ourIdx[w] = par.idx,
                          !.idx = addWord(@, perBatch),
                          !.mux = 0,
                          !.wpc[w] = "batch"]

\* Lines 95-101 and 112, after the mutex was released: the worker leaves the
\* loop when ourIdx >= ct.height and calls wg.Done(); else ourEnd is
\* ourIdx + perBatch cut at ct.height.
parEnd(w) ==
    /\ par.mpc = "wait"
    /\ par.wpc[w] = "batch"
    /\ LET our == par.ourIdx[w]
           sum == addWord(our, perBatch)
       IN par' = IF our >= par.height
                 THEN [par EXCEPT !.wpc[w] = "done"]
                 ELSE [par EXCEPT !.ourEnd[w] = IF sum > par.height
                                                THEN par.height ELSE sum,
                                  !.wpc[w] = "leaves"]

\* Line 115, the caller: wg.Wait() returns once every worker has called
\* wg.Done().
parWait ==
    /\ par.mpc = "wait"
    /\ wgDone(par.wpc, par.workers)
    /\ par' = [par EXCEPT !.mpc = "nodes"]

\* Lines 102-110: for ; ourIdx < ourEnd; ourIdx++ with
\* copy(ct.leaf(ourIdx), genLeaf(...)) in every turn.  The loop runs to its
\* end and the worker is back at mux.Lock(), unless the slice of a leaf is
\* out of range: the first such leaf ends the run in a panic.
parBatch(w) ==
    /\ par.mpc = "wait"
    /\ par.wpc[w] = "leaves"
    /\ LET bad == badLeaves(par.ourIdx[w], par.ourEnd[w]) IN
       par' = IF bad = {}
              THEN [par EXCEPT !.ourIdx[w] = IF @ < par.ourEnd[w]
                                             THEN par.ourEnd[w] ELSE @,
                               !.wpc[w] = "lock"]
              ELSE LET k == least(bad)
                       ptr == wordOffset(par.n, wordLeafNode(k)[1],
                                         wordLeafNode(k)[2])
                   IN [par EXCEPT !.ourIdx[w] = k,
                                  !.wpc[w] = "panic",
                                  !.mpc = "panic",
                                  !.at = k,
                                  !.lo = ptr,
                                  !.hi = addWord(ptr, par.n)]

\* A step of worker w.
parStep(w) == parLock(w) \/ parTake(w) \/ parEnd(w) \/ parBatch(w)

(***************************************************************************)
(* The allocators of channel sequence numbers: ChannelSeqNo with the       *)
(* counter keyQty (src/channel.go:168-197) and GetChannelSeqNo             *)
(* (src/unnamed/part_001:168-183).  alloc holds the fields of the channel  *)
(* the calls are made on, and rets the numbers returned, in order; keyQty  *)
(* is a word of IdxBits bits, and wrapped records that it was decremented  *)
(* at 0.                                                                   *)
(***************************************************************************)
\* ChannelSeqNo and GetChannelSeqNo are called up to MaxAllocCalls times.
MaxAllocCalls == 4

NoAlloc == [fn |-> "none", chIdx |-> 0, layers |-> 0, seqNo |-> 0,
            keyQty |-> 0, rets |-> << >>, wrapped |-> FALSE]


\* ChannelSeqNo(chIdx), one critical section of ch.mux: 0 when keyQty is 1,
\* else seqNo is returned and advanced and keyQty decremented.
ChannelSeqNo ==
    /\ alloc.fn = "ChannelSeqNo"
    /\ Len(alloc.rets) < MaxAllocCalls
    /\ alloc' = IF alloc.keyQty = 1
                THEN [alloc EXCEPT !.rets = Append(@, 0)]
                ELSE [alloc EXCEPT !.seqNo = @ + 1,
                                   !.keyQty = subWord(@, 1),
                                   !.wrapped = @ \/ alloc.keyQty = 0,
                                   !.rets = Append(@, alloc.seqNo)]

\* ch.addChainTree(ct), with a chain tree of height ctHeight.
addChainTree(ctHeight) ==
    /\ alloc.fn = "ChannelSeqNo"
    /\ alloc.layers < MaxLayers
    /\ alloc' = [alloc EXCEPT !.layers = @ + 1,
                              !.keyQty = addWord(@, ctHeight)]

\* GetChannelSeqNo(chIdx), one critical section of ch.mux: 0 when seqNo is
\* deriveChainTreeHeight(chIdx), else seqNo is returned and advanced.
GetChannelSeqNo ==
    /\ alloc.fn = "GetChannelSeqNo"
    /\ Len(alloc.rets) < MaxAllocCalls
    /\ alloc' = IF alloc.seqNo = deriveChainTreeHeight(alloc.chIdx)
                THEN [alloc EXCEPT !.rets = Append(@, 0)]
                ELSE [alloc EXCEPT !.seqNo = @ + 1,
                                   !.rets = Append(@, alloc.seqNo)]


(***************************************************************************)
(* The buffer of a chain tree (src/channel.go:131-203): newChainTree       *)
(* allocates it, and node, leaf, getRootNode and AuthPath take slices of   *)
(* it.  lay holds the fields of the chainTree (height, n, and the length   *)
(* of buf), the function called last with its argument, and the bounds     *)
(* [lo, hi) of the slice it took.                                          *)
(***************************************************************************)
\* Heights of the chain trees allocated: 1 .. MaxTreeHeight.
MaxTreeHeight == 17

NoLay == [height |-> 0, n |-> 0, buf |-> 0, lpc |-> "off",
          fn |-> "none", arg |-> 0, h |-> 0, i |-> 0, lo |-> 0, hi |-> 0]

\* The arguments of ct.node that name a node of a tree of height t.
ValidNodes(t) ==
    {hi \in (0 .. t - 1) \X {0, 1} : hi[1] < t - 1 \/ hi[2] = 0}

\* ct := newChainTree(height, n)
layNew ==
    /\ lay.lpc = "start"
    /\ lay' = [lay EXCEPT !.buf = newChainTree(lay.height, lay.n),
                          !.lpc = "ready"]

\* ct.buf[ptr : ptr+ct.n] of ct.node(height, idx), called as fn(arg): a
\* slice that ends past the buffer is a run-time panic.
sliceNode(fn, arg, height, idx) ==
    LET ptr == nodeOffset(lay.n, height, idx)
    IN lay' = [lay EXCEPT !.fn = fn, !.arg = arg, !.h = height, !.i = idx,
                          !.lo = ptr, !.hi = ptr + lay.n,
                          !.lpc = IF inBuffer(lay.buf, lay.n, height, idx)
                                  THEN "ready" ELSE "panic"]

\* ct.node(height, idx)
layNode(height, idx) ==
    /\ lay.lpc = "ready"
    /\ sliceNode("node", height, height, idx)

\* ct.leaf(idx)
layLeaf(idx) ==
    /\ lay.lpc = "ready"
    /\ sliceNode("leaf", idx, leafNode(idx)[1], leafNode(idx)[2])

\* ct.getRootNode()
layRoot ==
    /\ lay.lpc = "ready"
    /\ sliceNode("getRootNode", 0, lay.height - 1, 0)

\* ct.AuthPath(keyQty)
layAuthPath(keyQty) ==
    /\ lay.lpc = "ready"
    /\ sliceNode("AuthPath", keyQty, AuthPathNode(keyQty)[1],
                 AuthPathNode(keyQty)[2])

(***************************************************************************)
(* The verifier of a run with one caller: it is handed every RootSignature *)
(* when it is issued, and holds, per channel, the authentication node of   *)
(* the channel's next signature.                                           *)
(***************************************************************************)
none == [nil |-> TRUE]

\* Messages handed to SignChannelMsg and channel roots handed to
\* SignChannelRoot.
Msgs == {bytes("m1"), bytes("m2")}
ChannelRoots == {bytes("r1"), bytes("r2")}

NoVer == [authNode |-> << >>, rootSig |-> none, chRt |-> none,
          rootOk |-> TRUE]

\* A RootSignature is issued by the step of the caller at line 215-223: the
\* verifier runs VerifyChannelRoot on it; when it is the one returned by
\* createChannel, the signed chain-tree root becomes the authentication
\* node of the new channel.
verifyIssuedRoot(bs) ==
    LET chRt == IF loc[1].op = "createChannel"
                THEN getRootNode(1, loc[1].chIdx) ELSE bs
        sig == rootSignature(chRt, loc[1].seqNo)
        ok == VerifyChannelRoot(sig, chRt)
    IN ver' = [ver EXCEPT !.rootSig = sig, !.chRt = chRt, !.rootOk = ok,
                          !.authNode = IF loc[1].op = "createChannel" /\ ok
                                       THEN Append(@, chRt) ELSE @]

(***************************************************************************)
(* Specifications.                                                         *)
(***************************************************************************)
\* A fresh private key, no call in progress.
InitSigner ==
    /\ seqNo = 0
    /\ skMux = 0
    /\ Channels = << >>
    /\ heap = << >>
    /\ pc = [p \in AllProcs |-> "idle"]
    /\ loc = [p \in AllProcs |-> NoLoc]
    /\ last = NoEvent
    /\ rootLog = << >>
    /\ msgSigs = {}
    /\ dupMsg = {}
    /\ otsUsed = {}
    /\ otsReused = {}
    /\ ver = NoVer

InitState ==
    InitSigner /\ gen = NoGen /\ lay = NoLay /\ par = NoPar /\ alloc = NoAlloc

Init == params \in SeqParams /\ InitState

\* GetSeqNo and SignChannelRoot.
StepSeqNo(p) ==
    \/ CallGetSeqNo(p)
    \/ CallSignChannelRoot(p)
    \/ GetSeqNoLock(p)
    \/ GetSeqNoBody(p)
    \/ SignChannelRootSign(p)

\* createChannel up to its call of SignChannelRoot.
StepCreate(p) ==
    \/ CallCreateChannel(p)
    \/ createChannelLen(p)
    \/ createChannelDerive(p)
    \/ createChannelAppend(p)
    \/ createChannelUpdate(p)
    \/ createChannelGen(p)

\* The calls on the root tree and the channel list.
StepRoot(p) == StepSeqNo(p) \/ StepCreate(p)

\* The calls on a channel.
StepMsg(p) ==
    \/ \E chIdx \in 0 .. MaxChIdx, lastOne \in BOOLEAN :
         CallSignChannelMsg(p, chIdx, lastOne)
    \/ \E chIdx \in 1 .. MaxChIdx : CallGrowChannel(p, chIdx)
    \/ SignChannelMsgCheck(p)
    \/ SignChannelMsgRead(p)
    \/ ChannelSeqNos(p)
    \/ SignChannelMsgSign(p)
    \/ GrowChannelCheck(p)
    \/ GrowChannelRead(p)
    \/ appendChainTreeGen(p)
    \/ appendChainTreeUpdate(p)

\* Two goroutines making every call on one fresh private key.  A panic of
\* one of them ends the program.
Next ==
    /\ ~Crashed
    /\ \E p \in TwoCallers : StepRoot(p) \/ StepMsg(p)
    /\ UNCHANGED <<ver, gen, lay, par, alloc>>

Spec == Init /\ [][Next]_vars

\* One caller of SignChannelRoot and createChannel, and the verifier that is
\* handed every signature.
NextVerify ==
    /\ ~Crashed
    /\ \E p \in OneCaller :
         \/ CallSignChannelRoot(p)
         \/ GetSeqNoLock(p)
         \/ GetSeqNoBody(p)
         \/ SignChannelRootSign(p)
         \/ StepCreate(p)
    /\ IF pc[1] = "scr_sign" /\ pc'[1] = "idle"
       THEN \E bs \in ChannelRoots : verifyIssuedRoot(bs)
       ELSE UNCHANGED ver
    /\ UNCHANGED <<gen, lay, par, alloc>>

InitVerify == params \in VerParams /\ InitState

SpecVerify == InitVerify /\ [][NextVerify]_vars

\* Two goroutines calling GetSeqNo, SignChannelRoot and createChannel
\* concurrently on one fresh private key.
InitRoot == params \in ConcParams /\ InitState

NextRoot ==
    /\ ~Crashed
    /\ \E p \in TwoCallers : StepRoot(p)
    /\ UNCHANGED <<ver, gen, lay, par, alloc>>

SpecRoot == InitRoot /\ [][NextRoot]_vars

\* Three goroutines calling createChannel, SignChannelMsg and GrowChannel
\* concurrently on one fresh private key: a channel is in sk.Channels from
\* the append of line 382 on, while its createChannel is still running.
InitMsg == params \in ConcParams /\ InitState

NextMsg ==
    /\ ~Crashed
    /\ \E p \in ThreeCallers : StepCreate(p) \/ StepMsg(p)
    /\ UNCHANGED <<ver, gen, lay, par, alloc>>

SpecMsg == InitMsg /\ [][NextMsg]_vars

\* Four goroutines on one fresh private key: the first creates a channel,
\* the second signs messages on it, and the other two call GrowChannel on it
\* once its first chain tree was added.
NextGrow ==
    /\ ~Crashed
    /\ \/ StepCreate(1)
       \/ StepMsg(2) /\ loc'[2].op # "GrowChannel"
       \/ \E p \in {3, 4} :
             /\ pc[p] = "idle" => hasChannel(1) /\ getChannelLayer(1) >= 1
             /\ StepMsg(p)
             /\ loc'[p].op # "SignChannelMsg"
    /\ UNCHANGED <<ver, gen, lay, par, alloc>>

SpecGrow == InitMsg /\ [][NextGrow]_vars

\* Runs of genChainTree: every height and node length, and every setting of
\* ctx.threads (0 stands for runtime.NumCPU(), any number of workers).
InitGen ==
    /\ params \in ConcParams
    /\ InitSigner
    /\ lay = NoLay
    /\ par = NoPar
    /\ alloc = NoAlloc
    /\ \E t \in GenHeights, n \in NodeLengths, th \in 0 .. MaxThreads,
          cpu \in 1 .. MaxThreads :
         gen = [NoGen EXCEPT !.height = t,
                             !.n = n,
                             !.threads = th,
                             !.workers = IF th = 0 THEN cpu
                                         ELSE IF th = 1 THEN 0 ELSE th,
                             !.mpc = "start",
                             !.wpc = [w \in 1 .. MaxThreads |-> "off"],
                             !.ourIdx = [w \in 1 .. MaxThreads |-> 0],
                             !.ourEnd = [w \in 1 .. MaxThreads |-> 0],
                             !.wr = [k \in 0 .. t - 1 |-> << >>]]

NextGen ==
    /\ \/ genStart
       \/ genSeqLeaf
       \/ \E w \in 1 .. MaxThreads : workerLock(w)
       \/ \E w \in 1 .. MaxThreads : workerTake(w)
       \/ \E w \in 1 .. MaxThreads : workerBatch(w)
       \/ \E w \in 1 .. MaxThreads : workerLeaf(w)
       \/ genWait
       \/ genNode
    /\ UNCHANGED <<params, shared, pc, loc, last, history, ver, lay, par,
                   alloc>>

SpecGen == InitGen /\ [][NextGen]_vars

\* Chain trees of every height and node length: newChainTree, then slices of
\* its nodes, its leaves and its root, and the authentication nodes of the
\* chain indices 1 .. height.
InitLay ==
    /\ params \in ConcParams
    /\ InitSigner
    /\ gen = NoGen
    /\ par = NoPar
    /\ alloc = NoAlloc
    /\ \E t \in 1 .. MaxTreeHeight, n \in NodeLengths :
         lay = [NoLay EXCEPT !.height = t, !.n = n, !.lpc = "start"]

NextLay ==
    /\ \/ layNew
       \/ \E hi \in ValidNodes(lay.height) : layNode(hi[1], hi[2])
       \/ \E k \in 0 .. lay.height - 1 : layLeaf(k)
       \/ layRoot
       \/ \E k \in 1 .. lay.height : layAuthPath(k)
    /\ UNCHANGED <<params, shared, pc, loc, last, history, ver, gen, par,
                   alloc>>

SpecLay == InitLay /\ [][NextLay]_vars

\* The parallel branch of genChainTreeInto on the tree of newChainTree, for
\* the heights of WrapHeights, every node length and every number of
\* workers (ctx.threads >= 2, or ctx.threads = 0 and runtime.NumCPU() >= 1):
\* wg.Add(threads) is done, the workers are started and the caller is at
\* wg.Wait().
InitWrap ==
    /\ params \in ConcParams
    /\ InitSigner
    /\ gen = NoGen
    /\ lay = NoLay
    /\ alloc = NoAlloc
    /\ \E t \in WrapHeights, n \in NodeLengths, k \in 1 .. MaxThreads :
         par = [NoPar EXCEPT !.height = t,
                             !.n = n,
                             !.buf = wordBuffer(t),
                             !.workers = k,
                             !.mpc = "wait",
                             !.wpc = [w \in 1 .. MaxThreads |->
                                        IF w <= k THEN "lock" ELSE "off"],
                             !.ourIdx = [w \in 1 .. MaxThreads |-> 0],
                             !.ourEnd = [w \in 1 .. MaxThreads |-> 0]]

\* The signer takes no step while the tree is generated.
signerIdle ==
    UNCHANGED <<params, shared, pc, loc, last, history, ver, gen, lay, alloc>>

NextWrap ==
    \/ \E w \in 1 .. MaxThreads : parStep(w) /\ signerIdle
    \/ parWait /\ signerIdle

\* Every goroutine that can take a step is scheduled.
SpecWrap ==
    /\ InitWrap
    /\ [][NextWrap]_vars
    /\ \A w \in 1 .. MaxThreads : WF_vars(parStep(w) /\ signerIdle)
    /\ WF_vars(parWait /\ signerIdle)

\* Calls of one of the two allocators on a channel that deriveChannel has
\* made (seqNo, keyQty and layers are 0), with addChainTree in between.
InitAlloc ==
    /\ params \in SeqParams
    /\ InitSigner
    /\ gen = NoGen
    /\ lay = NoLay
    /\ par = NoPar
    /\ \E fn \in {"ChannelSeqNo", "GetChannelSeqNo"}, chIdx \in 0 .. MaxChIdx :
         alloc = [NoAlloc EXCEPT !.fn = fn, !.chIdx = chIdx]

NextAlloc ==
    /\ \/ ChannelSeqNo
       \/ \E l \in 0 .. MaxLayers : addChainTree(deriveChainTreeHeight(l))
       \/ GetChannelSeqNo
    /\ UNCHANGED <<params, shared, pc, loc, last, history, ver, gen, lay,
                   par>>

SpecAlloc == InitAlloc /\ [][NextAlloc]_vars

(***************************************************************************)
(* The claims.                                                             *)
(***************************************************************************)
\* The chain index of the last key of the chain tree a channel is in.
lastKeyOf(ch) == params.chanH + params.ge * ch.layers - 1

\* C1: no OTS address (layer, tree, otsIndex) produces more than one WOTS+
\* signature, over any interleaving of the calls on one key pair.
C1_NoOtsReuse == otsReused = {}

\* Two root signatures were made, and a SignChannelMsg holds the numbers of
\* its signature.
C1_Witness ==
    /\ {otsAddress(0, 0, 0), otsAddress(0, 0, 1)} \subseteq otsUsed
    /\ \E p \in AllProcs : pc[p] = "sm_sign"

\* C2: the root-tree sequence numbers handed out by concurrent GetSeqNo,
\* SignChannelRoot and createChannel calls are 0, 1, 2, ... in this order
\* (so pairwise distinct), no two RootSignatures are made with the same
\* seqNo, and sk.seqNo never decreases.
C2_RootSeqNos ==
    /\ [](/\ \A i \in 1 .. Len(rootLog) : rootLog[i] = i - 1
          /\ \A a \in otsReused : a.layer # 0)
    /\ [][seqNo' >= seqNo]_vars

\* Two SignChannelRoot calls in flight hold their numbers.
C2_Witness ==
    /\ pc[1] = "scr_sign" /\ pc[2] = "scr_sign"
    /\ loc[1].seqNo # loc[2].seqNo
    /\ rootLog = <<0, 1>>

\* C3: no two MsgSignatures of one channel carry the same seqNo, and the
\* channel's seqNo counts its message signatures: it is the number of
\* signatures issued plus the number of calls that hold a number and have
\* not signed yet.
C3_MsgSeqNos ==
    /\ dupMsg = {}
    /\ \A c \in 1 .. Len(Channels) :
          heap[Channels[c]].seqNo
            = Cardinality({s \in msgSigs : s.chIdx = c})
              + Cardinality({p \in AllProcs :
                               pc[p] = "sm_sign" /\ loc[p].chIdx = c})

\* C4: SignChannelMsg(chIdx, msg, false) on an existing channel whose
\* chainSeqNo is height(layer) - 1 returns MustGrowFirst and changes no
\* counter of the channel (the channel is not written between the two
\* reads of the check).
C4_MustGrowFirst ==
    [][\A p \in AllProcs :
         ( /\ pc[p] = "sm_read" /\ pc'[p] # "sm_read"
           /\ loc[p].op = "SignChannelMsg" /\ ~loc[p].lastOne
           /\ fieldOf(loc[p].ch, loc[p].rd) = loc[p].val
           /\ heap[loc[p].ch].chainSeqNo = lastKeyOf(heap[loc[p].ch]) )
         => /\ pc'[p] = "idle"
            /\ last' = [op |-> "SignChannelMsg", err |-> "MustGrowFirst"]
            /\ heap' = heap
            /\ Channels' = Channels]_vars

\* The call has returned MustGrowFirst on a channel at the last key of its
\* first chain tree.
C4_Witness ==
    /\ ~Crashed
    /\ last = [op |-> "SignChannelMsg", err |-> "MustGrowFirst"]
    /\ Len(Channels) >= 1
    /\ heap[Channels[1]].layers = 1
    /\ heap[Channels[1]].chainSeqNo = lastKeyOf(heap[Channels[1]])
    /\ heap[Channels[1]].chainSeqNo >= 1

\* C5: every channel at layer L >= 1 has chainSeqNo <= chanH + ge * L - 1.
C5_ChainSeqNoInTree ==
    \A c \in 1 .. Len(Channels) :
       heap[Channels[c]].layers >= 1 =>
          heap[Channels[c]].chainSeqNo <= lastKeyOf(heap[Channels[c]])

\* C6: with chanH = 4 and ge = 2, createChannel returns a channel, and the
\* channel in its first layer takes chanH - 1 = 3 message signatures before
\* it must grow: the last key of its chain tree is the one of index 3.
C6_LifeCycle ==
    (params.chanH = 4 /\ params.ge = 2) =>
       /\ \A p \in AllProcs : loc[p].op = "createChannel" => pc[p] # "panic"
       /\ \A c \in 1 .. Len(Channels) :
             heap[Channels[c]].layers = 1 =>
                lastKeyOf(heap[Channels[c]]) = params.chanH - 1

\* C7: in the first layer of a channel the k-th SignChannelMsg that has its
\* numbers returns a signature with seqNo = k - 1 and chainSeqNo = k >= 1.
C7_FirstLayerNumbers ==
    [][\A p \in AllProcs :
         ( /\ pc[p] = "sm_sign" /\ pc'[p] # "sm_sign"
           /\ loc[p].op = "SignChannelMsg"
           /\ hasChannel(loc[p].chIdx)
           /\ getChannelLayer(loc[p].chIdx) = 1 )
         => /\ pc'[p] = "idle"
            /\ last' = [op |-> "SignChannelMsg", err |-> "nil"]
            /\ loc[p].chainSeqNo = loc[p].seqNo + 1
            /\ msgSigs' = msgSigs
                 \cup {[chIdx |-> loc[p].chIdx, seqNo |-> loc[p].seqNo,
                        chainSeqNo |-> loc[p].seqNo + 1, layer |-> 1]}]_vars

\* C8: a GetSeqNo (alone, or inside SignChannelRoot / createChannel) succeeds
\* exactly when fewer than 2^rootH earlier ones succeeded, and then hands out
\* their number; every later one fails with OutOfRootKeys; and a
\* createChannel gets as far as its GetSeqNo.
C8_RootKeysExhaust ==
    [][\A p \in AllProcs :
         /\ (pc[p] = "gs_body" /\ pc'[p] # "gs_body") =>
               IF Len(rootLog) < 2 ^ params.rootH
               THEN /\ rootLog' = Append(rootLog, Len(rootLog))
                    /\ (pc'[p] = "idle" =>
                          last' = [op |-> "GetSeqNo", err |-> "nil"])
               ELSE /\ rootLog' = rootLog
                    /\ pc'[p] = "idle"
                    /\ last' = [op |-> loc[p].op, err |-> "OutOfRootKeys"]
         /\ (pc[p] = "cc_gen" /\ pc'[p] # "cc_gen") => pc'[p] = "gs_lock"]_vars

\* C9 as stated: sk.seqNo < 2^rootH in every reachable state.
C9_SeqNoBelowCapacity == seqNo < 2 ^ params.rootH

\* C9 amended: sk.seqNo <= 2^rootH in every reachable state, and every
\* sequence number handed out is < 2^rootH.
C9_SeqNoAtMostCapacity ==
    /\ seqNo <= 2 ^ params.rootH
    /\ \A i \in 1 .. Len(rootLog) : rootLog[i] < 2 ^ params.rootH

\* All root keys are used and a further call has failed.
C9_Witness ==
    /\ seqNo = 2 ^ params.rootH
    /\ pc[1] = "idle"
    /\ last.err = "OutOfRootKeys"

\* C10: len(sk.Channels) <= 2^rootH in every reachable state.
C10_ChannelCapacity == Len(Channels) <= 2 ^ params.rootH

\* C11: a CreateChannel, SignChannelRoot, SignChannelMsg or GrowChannel that
\* fails, by an error it returns or by a panic, has written neither
\* sk.seqNo, sk.Channels nor a counter of a channel.
C11_ErrorLeavesState ==
    [][\A p \in AllProcs :
         ( /\ pc[p] \notin {"idle", "panic"}
           /\ \/ pc'[p] = "idle" /\ last'.err # "nil"
              \/ pc'[p] = "panic"
           /\ loc[p].op \in {"createChannel", "SignChannelRoot",
                              "SignChannelMsg", "GrowChannel"} )
         => ~loc[p].wrote]_vars

\* C12: a createChannel on a key with c channels has chIdx = c + 1, has
\* appended one channel [idx = c + 1, layers = 1, chainSeqNo = 0, seqNo = 0]
\* at position c + 1, and goes on to take one root-tree sequence number
\* (one caller).
C12_CreateChannelEffect ==
    [][\A p \in AllProcs :
         (pc[p] = "cc_gen" /\ pc'[p] # "cc_gen") =>
            /\ loc[p].chIdx = Len(Channels)
            /\ Channels[loc[p].chIdx] = loc[p].ch
            /\ heap[loc[p].ch] = [idx |-> loc[p].chIdx, layers |-> 1,
                                  chainSeqNo |-> 0, seqNo |-> 0]
            /\ seqNo' = seqNo
            /\ pc'[p] = "gs_lock"]_vars

\* C13: GrowChannel(chIdx) goes on to grow the channel exactly when the
\* channel's chainSeqNo is height(layer) - 1; in every other channel state
\* it returns ChannelNotGrowable and changes no counter (the channel is not
\* written between the two reads of the check); a GrowChannel that returns
\* without error has passed the check.
C13_GrowOnlyAtLastKey ==
    [][\A p \in AllProcs :
         /\ ( /\ pc[p] = "gc_read" /\ pc'[p] # "gc_read"
              /\ fieldOf(loc[p].ch, loc[p].rd) = loc[p].val ) =>
               IF heap[loc[p].ch].chainSeqNo = lastKeyOf(heap[loc[p].ch])
               THEN pc'[p] = "act_gen"
               ELSE /\ pc'[p] = "idle"
                    /\ last' = [op |-> "GrowChannel",
                                err |-> "ChannelNotGrowable"]
                    /\ heap' = heap
                    /\ Channels' = Channels
                    /\ seqNo' = seqNo
         /\ ( /\ pc[p] # "idle" /\ pc'[p] = "idle"
              /\ last' = [op |-> "GrowChannel", err |-> "nil"] ) =>
               loc[p].lastOne]_vars

\* GrowChannel was refused on a channel that is not at its last key, and
\* another GrowChannel has passed the check on the channel at the last key
\* of its first chain tree.
C13_Witness ==
    /\ last = [op |-> "GrowChannel", err |-> "ChannelNotGrowable"]
    /\ Len(Channels) >= 1
    /\ heap[Channels[1]].layers = 1
    /\ heap[Channels[1]].chainSeqNo = lastKeyOf(heap[Channels[1]])
    /\ \E p \in AllProcs : pc[p] = "act_gen" /\ loc[p].ch = Channels[1]

\* C14: a GrowChannel(chIdx) that has passed the check issues exactly one
\* MsgSignature, with the numbers it took, then adds 1 to the channel's
\* layers, sets its chainSeqNo to 0 and returns; neither sk.seqNo nor
\* sk.Channels changes.
C14_GrowEffect ==
    [][\A p \in AllProcs :
         ( /\ loc[p].op = "GrowChannel"
           /\ pc[p] \in {"act_gen", "sm_sign", "act_update"}
           /\ pc'[p] # pc[p] ) =>
            LET c == loc[p].chIdx
                ch == heap[Channels[c]]
                sig == [chIdx |-> c, seqNo |-> loc[p].seqNo,
                        chainSeqNo |-> loc[p].chainSeqNo,
                        layer |-> ch.layers]
            IN
            /\ pc'[p] # "panic"
            /\ seqNo' = seqNo
            /\ Channels' = Channels
            /\ pc[p] = "sm_sign" =>
                  /\ pc'[p] = "act_update"
                  /\ sig \notin msgSigs
                  /\ msgSigs' = msgSigs \cup {sig}
                  /\ heap' = heap
            /\ pc[p] = "act_update" =>
                  /\ pc'[p] = "idle"
                  /\ last' = [op |-> "GrowChannel", err |-> "nil"]
                  /\ msgSigs' = msgSigs
                  /\ heap' = [heap EXCEPT ![Channels[c]].layers = @ + 1,
                                          ![Channels[c]].chainSeqNo = 0]]_vars

\* C15: a SignChannelMsg that has its numbers returns a MsgSignature, and
\* the first one of a chain is accepted by VerifyChannelMsg with its message
\* and the root of the chain tree.
C15_VerifyInOrder ==
    [][\A p \in AllProcs :
         ( /\ pc[p] = "sm_sign" /\ pc'[p] # "sm_sign"
           /\ hasChannel(loc[p].chIdx) ) =>
            /\ pc'[p] = "idle"
            /\ last'.err = "nil"
            /\ loc[p].chainSeqNo = 1 =>
                  \A msg \in Msgs :
                     VerifyChannelMsg(
                        signedMsg(loc[p].chIdx, msg,
                                  getChannelLayer(loc[p].chIdx),
                                  loc[p].chainSeqNo, loc[p].seqNo),
                        msg,
                        getRootNode(getChannelLayer(loc[p].chIdx),
                                    loc[p].chIdx))]_vars

\* C16: for every root-tree index k < 2^rootH and every channel root chRt,
\* VerifyChannelRoot accepts SignChannelRoot's signature of chRt made with
\* index k: the walk of rootH levels from leaf k, hashing with the sibling
\* node(h, (k >> h) XOR 1) on the side given by bit h of k under the node
\* address (h, k >> (h + 1)), passes through the nodes (h, k >> h) of the
\* root tree and ends in pk.root.
C16_RootSigVerifies ==
    /\ ver.rootOk
    /\ (pc[1] = "idle" /\ last = [op |-> "SignChannelRoot", err |-> "nil"]) =>
       \A k \in 0 .. 2 ^ params.rootH - 1 :
       \A chRt \in {ver.chRt, getRootNode(1, 1)} :
          LET sig == rootSignature(chRt, k) IN
          /\ VerifyChannelRoot(sig, chRt)
          /\ \A h \in 0 .. params.rootH - 1 :
                LET cur == rootTreeNode(h, k \div 2 ^ h)
                    sib == sig.authPath[h + 1]
                    bit == (k \div 2 ^ h) % 2
                IN rootTreeNode(h + 1, k \div 2 ^ (h + 1))
                     = hInto(IF bit = 0 THEN cur ELSE sib,
                             IF bit = 0 THEN sib ELSE cur,
                             0, 0, h, k \div 2 ^ (h + 1))

\* The signature made with the last index of a root tree of height 2 was
\* issued and verified.
C16_Witness ==
    /\ params.rootH = 2
    /\ ver.rootSig # none
    /\ ver.rootSig.seqNo = 3
    /\ ver.chRt = bytes("r2")
    /\ ver.rootOk
    /\ last = [op |-> "SignChannelRoot", err |-> "nil"]

\* C17: when one field of a valid RootSignature or the channel root is
\* changed, VerifyChannelRoot returns false; when one component of a valid
\* (msg, MsgSignature, authNode) triple is changed, VerifyChannelMsg returns
\* false.  The RootSignature is the one SignChannelRoot has returned, the
\* triple the signature of the first message of channel 1 with the node it
\* verifies to.
C17_TamperRejected ==
    ( /\ pc[1] = "idle"
      /\ last = [op |-> "SignChannelRoot", err |-> "nil"] ) =>
      /\ LET sig == ver.rootSig
             chRt == ver.chRt
         IN
         /\ VerifyChannelRoot(sig, chRt)
         /\ ~VerifyChannelRoot(sig, bytes("x"))
         /\ ~VerifyChannelRoot([sig EXCEPT !.seqNo = xor1(@)], chRt)
         /\ ~VerifyChannelRoot([sig EXCEPT !.drv = bytes("x")], chRt)
         /\ ~VerifyChannelRoot([sig EXCEPT !.wotsSig = bytes("x")], chRt)
         /\ \A h \in 1 .. params.rootH :
               ~VerifyChannelRoot([sig EXCEPT !.authPath[h] = bytes("x")], chRt)
         /\ ~VerifyChannelRoot([sig EXCEPT !.rootHash = bytes("x")], chRt)
      /\ LET msg == bytes("m1")
             sig == signedMsg(1, msg, 1, 1, 0)
             an == verifiedNode(sig, msg)
         IN
         /\ VerifyChannelMsg(sig, msg, an)
         /\ \A m \in (Msgs \cup {bytes("x")}) \ {msg} :
               ~VerifyChannelMsg(sig, m, an)
         /\ ~VerifyChannelMsg(sig, msg, bytes("x"))
         /\ ~VerifyChannelMsg(sig, msg, sig.authPath)
         /\ \A d \in {1, 2} :
               /\ ~VerifyChannelMsg([sig EXCEPT !.seqNo = @ + d], msg, an)
               /\ ~VerifyChannelMsg([sig EXCEPT !.chainSeqNo = @ + d], msg, an)
               /\ ~VerifyChannelMsg([sig EXCEPT !.chIdx = @ + d], msg, an)
               /\ ~VerifyChannelMsg([sig EXCEPT !.layer = @ + d], msg, an)
         /\ ~VerifyChannelMsg([sig EXCEPT !.drv = bytes("x")], msg, an)
         /\ ~VerifyChannelMsg([sig EXCEPT !.wotsSig = bytes("x")], msg, an)
         /\ ~VerifyChannelMsg([sig EXCEPT !.authPath = bytes("x")], msg, an)
         /\ ~VerifyChannelMsg(
               [sig EXCEPT !.rootSig = rootSignature(bytes("x"), 0)], msg, an)

\* C18: genChainTree leaves the same tree in ct with one thread and with any
\* number of workers, for every height: when the run has ended, ct holds the
\* 2t - 1 nodes of the tree, leaf k is genLeaf of index k, and node(h, 0)
\* the hash of node(h - 1, 0) and node(h - 1, 1) under the address
\* (h - 1, 0).
C18_ParallelSameTree ==
    gen.mpc \in {"done", "panic"} =>
       /\ Len(gen.ct) = 2 * gen.height - 1
       /\ \A k \in 0 .. gen.height - 1 :
             gen.ct[leafSlot(k)] = genLeaf(otsAddress(GenLayer, GenChIdx, k))
       /\ \A h \in 1 .. gen.height - 1 :
             gen.ct[nodeSlot(h, 0)]
               = hInto(gen.ct[nodeSlot(h - 1, 0)], gen.ct[nodeSlot(h - 1, 1)],
                       GenLayer, GenChIdx, h - 1, 0)

\* C19: concurrent SignChannelMsg(chIdx, msg, false) calls on a fresh channel
\* never take the key withheld for the grow signature: a call that has got
\* its numbers holds a chain index <= height(layer) - 1.
C19_LastKeyWithheld ==
    ( /\ Len(Channels) >= 1
      /\ heap[Channels[1]].layers = 1
      /\ \A q \in AllProcs :
            /\ loc[q].op \in {"none", "createChannel", "SignChannelMsg"}
            /\ ~loc[q].lastOne )
    => \A p \in AllProcs :
          pc[p] = "sm_sign" =>
             loc[p].chainSeqNo <= lastKeyOf(heap[Channels[1]])

\* C20: of two GrowChannel calls running concurrently on one channel that
\* is at the last key of its chain tree, at most one passes the check and
\* goes on to add a layer.
C20_OneGrowSucceeds ==
    ~ \E p, q \in AllProcs :
         /\ p # q
         /\ loc[p].op = "GrowChannel" /\ loc[q].op = "GrowChannel"
         /\ pc[p] \in {"act_gen", "sm_check", "sm_seqnos", "sm_sign",
                       "act_update"}
         /\ pc[q] \in {"act_gen", "sm_check", "sm_seqnos", "sm_sign",
                       "act_update"}
         /\ loc[p].chIdx = loc[q].chIdx

\* C21: concurrent createChannel calls on one private key hold pairwise
\* distinct channel indices, the idx of every channel in sk.Channels is its
\* 1-based position, and every channel whose append has run is in
\* sk.Channels.
C21_CreateChannelIndices ==
    /\ \A p, q \in AllProcs :
          ( /\ p # q
            /\ loc[p].op = "createChannel" /\ loc[q].op = "createChannel"
            /\ pc[p] \notin {"idle", "cc_len"}
            /\ pc[q] \notin {"idle", "cc_len"} )
          => loc[p].chIdx # loc[q].chIdx
    /\ \A c \in 1 .. Len(Channels) : heap[Channels[c]].idx = c
    /\ \A h \in 1 .. Len(heap) :
          \/ \E c \in 1 .. Len(Channels) : Channels[c] = h
          \/ \E p \in AllProcs : pc[p] \in {"cc_append"} /\ loc[p].ch = h

\* C22: the buffer of newChainTree(t, n) has (2t-1)*n bytes, and the slice
\* of every node(h, i), every leaf(k) and getRootNode() of the tree lies
\* inside it: no slice is out of range.
C22_SlicesInsideBuffer ==
    lay.lpc \in {"ready", "panic"} =>
       /\ lay.buf = (2 * lay.height - 1) * lay.n
       /\ lay.lpc # "panic"
       /\ lay.fn # "none" => 0 <= lay.lo /\ lay.hi <= lay.buf

\* C23: in a chain tree of height t the slots of the nodes are disjoint and
\* contiguous: the offsets of node(h, i) over the valid (h, i) are exactly
\* 0, n, ..., (2t-2)*n, no two nodes share one; leaf(0) is node(0, 0) and
\* leaf(k) is node(k-1, 1); distinct leaves have distinct slots, none of
\* them the slot of an internal node(h, 0), h >= 1.  The slice taken last
\* is the n bytes at the offset of its node.
C23_SlotsDisjointContiguous ==
    lay.lpc \in {"ready", "panic"} =>
       LET t == lay.height
           n == lay.n
           off(hi) == nodeOffset(n, hi[1], hi[2])
       IN
       /\ {off(hi) : hi \in ValidNodes(t)} = {k * n : k \in 0 .. 2 * t - 2}
       /\ \A a, b \in ValidNodes(t) : a # b => off(a) # off(b)
       /\ leafNode(0) = <<0, 0>>
       /\ \A k \in 1 .. t - 1 : leafNode(k) = <<k - 1, 1>>
       /\ \A k \in 0 .. t - 1 : leafNode(k) \in ValidNodes(t)
       /\ \A j, k \in 0 .. t - 1 : j # k => off(leafNode(j)) # off(leafNode(k))
       /\ \A k \in 0 .. t - 1, h \in 1 .. t - 1 :
             off(leafNode(k)) # off(<<h, 0>>)
       /\ lay.fn # "none" =>
             /\ <<lay.h, lay.i>> \in ValidNodes(t)
             /\ lay.lo = off(<<lay.h, lay.i>>)
             /\ lay.hi = lay.lo + n
             /\ \A hi \in ValidNodes(t) \ {<<lay.h, lay.i>>} :
                   off(hi) + n <= lay.lo \/ lay.hi <= off(hi)

\* The slice of leaf(1), the right node of height 0, was taken of a tree of
\* 17 leaves with nodes of 32 bytes.
C23_Witness ==
    /\ lay.lpc = "ready"
    /\ lay.fn = "leaf" /\ lay.h = 0 /\ lay.i = 1
    /\ lay.height = 17 /\ lay.n = 32
    /\ lay.lo = 32 /\ lay.hi = 64

\* C24: in the parallel generation of the leaves the batches
\* [ourIdx, min(ourIdx + 32, t)) the workers take are pairwise disjoint, a
\* leaf is written by the worker that took its batch and by no other, never
\* twice, and when the run has ended the batches cover [0, t) and every
\* leaf was written exactly once.
C24_EachLeafOnce ==
    gen.workers > 0 =>
       /\ \A b \in gen.batches :
             /\ b[2] < gen.height
             /\ b[3] = (IF b[2] + 32 < gen.height THEN b[2] + 32 ELSE gen.height)
       /\ \A a, b \in gen.batches : a # b => (a[3] <= b[2] \/ b[3] <= a[2])
       /\ \A k \in 0 .. gen.height - 1 :
             /\ Len(gen.wr[k]) <= 1
             /\ Len(gen.wr[k]) = 1 =>
                   \E b \in gen.batches :
                      b[1] = gen.wr[k][1] /\ b[2] <= k /\ k < b[3]
       /\ gen.mpc \in {"done", "panic"} =>
             \A k \in 0 .. gen.height - 1 :
                /\ Len(gen.wr[k]) = 1
                /\ Cardinality({b \in gen.batches : b[2] <= k /\ k < b[3]}) = 1

\* C25: the parallel generation of the leaves ends for every height of the
\* chain tree and every number of workers: every worker reads an index that
\* is not below the height and leaves its loop, and wg.Wait returns.
C25_WorkersTerminate == <>(par.mpc = "nodes")

\* C26: the authPath of a MsgSignature with chain index chainSeqNo = k, the
\* slice ct.AuthPath(k) returns (line 351), is node(k, 0) of the chain tree.
C26_AuthPathAtChainSeqNo ==
    (lay.fn = "AuthPath" /\ lay.lpc = "ready") =>
       /\ <<lay.h, lay.i>> = <<lay.arg, 0>>
       /\ lay.lo = nodeOffset(lay.n, lay.arg, 0)

\* C27: ChannelSeqNo and GetChannelSeqNo return no sequence number twice for
\* one channel, over any sequence of calls, and keyQty is never decremented
\* at zero.
C27_AllocatorsNeverRepeat ==
    /\ \A i, j \in 1 .. Len(alloc.rets) :
          i # j => alloc.rets[i] # alloc.rets[j]
    /\ ~alloc.wrapped

====
